---- MODULE Spec2Model ----
(***************************************************************************)
(* Model of backend/config/tf_config_generator.py: generate_config builds  *)
(* a Jinja2 context from the request, renders the main tfvars template,    *)
(* reads the size-specific tfvars file, merges both texts and writes the   *)
(* result to generated-terraform.tfvars.                                   *)
(*                                                                         *)
(* Text is a sequence of tokens; a size string is a sequence of one-       *)
(* character strings so that str.lower() is computed character by          *)
(* character.  Every invocation is a process with its own local variables. *)
(***************************************************************************)
EXTENDS Integers, Sequences, FiniteSets, TLC

\* Number of invocations that may be in flight in the concurrent specification.
NumProcs == 2

Procs == 1..NumProcs

\* The single caller of the sequential specification.
SeqProcs == {1}

-----------------------------------------------------------------------------
(* Constants of the module under study *)

small_key  == <<"s","m","a","l","l">>
medium_key == <<"m","e","d","i","u","m">>
large_key  == <<"l","a","r","g","e">>

DEPLOYMENT_CONFIGS ==
    (small_key  :> "small_vars.tfvars") @@
    (medium_key :> "medium_vars.tfvars") @@
    (large_key  :> "large_vars.tfvars")

MAIN_CONFIG_TEMPLATE_NAME == "main_tfvars.tfvars.j2"
OUTPUT_TFVARS_FILENAME == "generated-terraform.tfvars"

\* The literal "\n\n# --- Size-Specific Variables ---\n" of the merge.
Delimiter == <<"\n", "\n", "# --- Size-Specific Variables ---", "\n">>

-----------------------------------------------------------------------------
(* Python helpers *)

UpperLetters == <<"A","B","C","D","E","F","G","H","I","J","K","L","M",
                  "N","O","P","Q","R","S","T","U","V","W","X","Y","Z">>
LowerLetters == <<"a","b","c","d","e","f","g","h","i","j","k","l","m",
                  "n","o","p","q","r","s","t","u","v","w","x","y","z">>

\* str.lower() on one character.
LowerChar(c) ==
    IF \E i \in DOMAIN UpperLetters : UpperLetters[i] = c
    THEN LowerLetters[CHOOSE i \in DOMAIN UpperLetters : UpperLetters[i] = c]
    ELSE c

\* str.lower()
Lower(s) == [i \in DOMAIN s |-> LowerChar(s[i])]

\* dict.get(key, default)
DictGet(d, k, default) == IF k \in DOMAIN d THEN d[k] ELSE default

\* Python's "a or b": the first operand when truthy, else the second.
PyOr(a, b) == IF a THEN a ELSE b

\* Exception classes that the helpers may raise, with their base classes.
ExcParent ==
    [ FileNotFoundError  |-> "IOError",
      PermissionError    |-> "IOError",
      IOError            |-> "Exception",
      UnicodeDecodeError |-> "Exception",
      TemplateNotFound   |-> "IOError",
      UndefinedError     |-> "Exception",
      TypeError          |-> "Exception",
      Exception          |-> "Exception" ]

\* isinstance(exc, cls) as an except clause evaluates it.
IsInstance(e, cls) ==
    \/ e = cls
    \/ ExcParent[e] = cls
    \/ ExcParent[ExcParent[e]] = cls

-----------------------------------------------------------------------------
(* Bounded inputs *)

ComponentKeys == {"bap", "bpp", "gateway", "registry"}

\* components: every mapping from some of the component names to a flag.
ComponentMaps == UNION { [D -> BOOLEAN] : D \in SUBSET ComponentKeys }

SizeStrings ==
    { small_key, <<"S","M","A","L","L">>,
      <<"M","e","D","i","u","m">>,
      large_key,
      <<"x","l">>, <<>> }

Requests ==
    [ project_id : {"proj-a"}, region : {"us-central1"}, app_name : {"onix"},
      type : SizeStrings, components : ComponentMaps ]

\* Requests of the concurrent specification: they differ in every field
\* that reaches the output.
ConcRequests ==
    { [ project_id |-> "proj-a", region |-> "us-central1", app_name |-> "onix",
        type |-> small_key, components |-> ("bap" :> TRUE) ],
      [ project_id |-> "proj-b", region |-> "asia-south1", app_name |-> "beckn",
        type |-> <<"L","A","R","G","E">>,
        components |-> ("gateway" :> TRUE) @@ ("bap" :> FALSE) ] }

NoRequest ==
    [ project_id |-> "", region |-> "", app_name |-> "",
      type |-> <<>>, components |-> [k \in {} |-> FALSE] ]

NoContext ==
    [ project_id |-> "", region |-> "", suffix |-> "",
      provision_adapter_infra |-> FALSE,
      provision_gateway_infra |-> FALSE,
      provision_registry_infra |-> FALSE ]

OverrideFiles == { DEPLOYMENT_CONFIGS[k] : k \in DOMAIN DEPLOYMENT_CONFIGS }


\* Raw text of each size-specific tfvars file, when it exists.
FileContent(f) == <<f, "node_count = n">>

EmptyFile == [exists |-> FALSE, text |-> <<>>]

-----------------------------------------------------------------------------
(* State *)

VARIABLES
    existing,                   \* the override files present in the template directory
    outfile,                    \* generated-terraform.tfvars: [exists, text]
    pc,                         \* position of each invocation
    deploy_infra_req,           \* argument of each invocation
    jinja_context,              \* local of each invocation (lines 48-56)
    main_config_content,        \* local (line 62)
    size_specific_var_filename, \* local (line 74)
    size_config_content,        \* local (lines 77, 80)
    merged_content,             \* local (line 90)
    raised,                     \* exception each invocation raised to its caller, "" if none
    trace,                      \* history: helper calls of the invocation, in order, with results
    outBefore,                  \* history: the output file when the invocation began
    lastWriter                  \* history: invocation whose write reached the file last, 0 if none

vars == <<existing, outfile, pc, deploy_infra_req, jinja_context,
          main_config_content, size_specific_var_filename, size_config_content,
          merged_content, raised, trace, outBefore, lastWriter>>

Init ==
    /\ existing \in SUBSET OverrideFiles
    /\ outfile = EmptyFile
    /\ pc = [p \in Procs |-> "idle"]
    /\ deploy_infra_req = [p \in Procs |-> NoRequest]
    /\ jinja_context = [p \in Procs |-> NoContext]
    /\ main_config_content = [p \in Procs |-> <<>>]
    /\ size_specific_var_filename = [p \in Procs |-> ""]
    /\ size_config_content = [p \in Procs |-> <<>>]
    /\ merged_content = [p \in Procs |-> <<>>]
    /\ raised = [p \in Procs |-> ""]
    /\ trace = [p \in Procs |-> <<>>]
    /\ outBefore = [p \in Procs |-> EmptyFile]
    /\ lastWriter = 0

-----------------------------------------------------------------------------
(* Collaborators from core.utils *)

\* render_jinja_template: the main template substitutes the three names and
\* includes one block per provisioning flag that is set.
render_jinja_template(context) ==
    <<context.project_id, context.region, context.suffix>>
    \o (IF context.provision_adapter_infra  = TRUE THEN <<"adapter">>  ELSE <<>>)
    \o (IF context.provision_gateway_infra  = TRUE THEN <<"gateway">>  ELSE <<>>)
    \o (IF context.provision_registry_infra = TRUE THEN <<"registry">> ELSE <<>>)

\* Exceptions rendering may end in.
RenderErrors == {"TemplateNotFound", "UndefinedError"}

\* Exceptions reading an existing file may end in.
ReadErrors == {"PermissionError", "UnicodeDecodeError"}

\* Exceptions writing the output may end in.
WriteErrors == {"FileNotFoundError", "TypeError"}

\* What a failed write may leave behind: the file untouched (open failed)
\* or truncated (open succeeded, the write did not).
AfterFailedWrite(old) == {old, [exists |-> TRUE, text |-> <<>>]}

-----------------------------------------------------------------------------
(* generate_config *)

\* Variant: the adapter flag needs both bap and bpp.
BuildContext_and(req) ==
    [ project_id |-> req.project_id,
      region     |-> req.region,
      suffix     |-> req.app_name,
      provision_adapter_infra  |->
          (DictGet(req.components, "bap", FALSE) /\
           DictGet(req.components, "bpp", FALSE)),
      provision_gateway_infra  |-> DictGet(req.components, "gateway", FALSE),
      provision_registry_infra |-> DictGet(req.components, "registry", FALSE) ]

\* Lines 48-56.
BuildContext(req) ==
    [ project_id |-> req.project_id,
      region     |-> req.region,
      suffix     |-> req.app_name,
      provision_adapter_infra  |->
          PyOr(DictGet(req.components, "bap", FALSE),
               DictGet(req.components, "bpp", FALSE)),
      provision_gateway_infra  |-> DictGet(req.components, "gateway", FALSE),
      provision_registry_infra |-> DictGet(req.components, "registry", FALSE) ]

\* Variant: the size string is looked up as given.
ResolveSizeFile_nolower(req) ==
    DictGet(DEPLOYMENT_CONFIGS, req.type, DEPLOYMENT_CONFIGS[small_key])

\* Lines 73-74.
ResolveSizeFile(req) ==
    DictGet(DEPLOYMENT_CONFIGS, Lower(req.type), DEPLOYMENT_CONFIGS[small_key])

\* Variant: every I/O error of the read is logged and passed over.
ReadHandler_swallowIO(e) ==
    IF IsInstance(e, "IOError") THEN "continue"
    ELSE "propagate"

\* Variant: a missing file is an error like any other.
ReadHandler_strict(e) ==
    IF IsInstance(e, "IOError") THEN "raise"
    ELSE "propagate"

\* Lines 79-86: what the try statement around the read does with an
\* exception: the first matching except clause decides; an exception no
\* clause matches leaves the function as it is.
ReadHandler(e) ==
    IF IsInstance(e, "FileNotFoundError") THEN "continue"
    ELSE IF IsInstance(e, "IOError") THEN "raise"
    ELSE "propagate"

\* Variant: an I/O error of the write is logged and passed over.
WriteHandler_swallow(e) ==
    IF IsInstance(e, "IOError") THEN "continue"
    ELSE "propagate"

\* Lines 94-99: what the try statement around the write does with an exception.
WriteHandler(e) ==
    IF IsInstance(e, "IOError") THEN "raise"
    ELSE "propagate"

\* Variant: the size-specific text is put first.
MergeContents_swapped(main, size) == size \o Delimiter \o main

\* Line 90.
MergeContents(main, size) == main \o Delimiter \o size

Event(step, result) == [step |-> step, result |-> result]

\* Variant: the output file is opened for writing on entry.
Enter_opens(p, r) ==
    /\ deploy_infra_req' = [deploy_infra_req EXCEPT ![p] = r]
    /\ jinja_context' = [jinja_context EXCEPT ![p] = BuildContext(r)]
    /\ main_config_content' = [main_config_content EXCEPT ![p] = <<>>]
    /\ size_specific_var_filename' = [size_specific_var_filename EXCEPT ![p] = ""]
    /\ size_config_content' = [size_config_content EXCEPT ![p] = <<>>]
    /\ merged_content' = [merged_content EXCEPT ![p] = <<>>]
    /\ raised' = [raised EXCEPT ![p] = ""]
    /\ trace' = [trace EXCEPT ![p] = <<>>]
    /\ outBefore' = [outBefore EXCEPT ![p] = outfile]
    /\ pc' = [pc EXCEPT ![p] = "render"]
    /\ outfile' = [exists |-> TRUE, text |-> <<>>]
    /\ UNCHANGED <<existing, lastWriter>>

\* Lines 34-57: entry, with the request r.
Enter(p, r) ==
    /\ deploy_infra_req' = [deploy_infra_req EXCEPT ![p] = r]
    /\ jinja_context' = [jinja_context EXCEPT ![p] = BuildContext(r)]
    /\ main_config_content' = [main_config_content EXCEPT ![p] = <<>>]
    /\ size_specific_var_filename' = [size_specific_var_filename EXCEPT ![p] = ""]
    /\ size_config_content' = [size_config_content EXCEPT ![p] = <<>>]
    /\ merged_content' = [merged_content EXCEPT ![p] = <<>>]
    /\ raised' = [raised EXCEPT ![p] = ""]
    /\ trace' = [trace EXCEPT ![p] = <<>>]
    /\ outBefore' = [outBefore EXCEPT ![p] = outfile]
    /\ pc' = [pc EXCEPT ![p] = "render"]
    /\ UNCHANGED <<existing, outfile, lastWriter>>

\* The installer pipeline invokes generate_config.
Call(p) ==
    /\ pc[p] = "idle"
    /\ \E r \in Requests : Enter(p, r)

\* An invocation that may overlap others.
ConcCall(p) ==
    /\ pc[p] = "idle"
    /\ \E r \in ConcRequests : Enter(p, r)

\* Variant: a rendering error is logged and the function goes on with no base text.
Render_swallow(p) ==
    /\ pc[p] = "render"
    /\ \/ /\ main_config_content' =
                [main_config_content EXCEPT ![p] = render_jinja_template(jinja_context[p])]
          /\ trace' = [trace EXCEPT ![p] = Append(@, Event("render", "ok"))]
          /\ pc' = [pc EXCEPT ![p] = "read"]
          /\ UNCHANGED raised
       \/ \E e \in RenderErrors :
          /\ trace' = [trace EXCEPT ![p] = Append(@, Event("render", e))]
          /\ pc' = [pc EXCEPT ![p] = "read"]
          /\ UNCHANGED <<raised, main_config_content>>
    /\ UNCHANGED <<existing, outfile, deploy_infra_req, jinja_context,
                   size_specific_var_filename, size_config_content,
                   merged_content, outBefore, lastWriter>>

\* Lines 61-70.
Render(p) ==
    /\ pc[p] = "render"
    /\ \/ /\ main_config_content' =
                [main_config_content EXCEPT ![p] = render_jinja_template(jinja_context[p])]
          /\ trace' = [trace EXCEPT ![p] = Append(@, Event("render", "ok"))]
          /\ pc' = [pc EXCEPT ![p] = "read"]
          /\ UNCHANGED raised
       \/ \E e \in RenderErrors :
          /\ trace' = [trace EXCEPT ![p] = Append(@, Event("render", e))]
          /\ raised' = [raised EXCEPT ![p] = e]
          /\ pc' = [pc EXCEPT ![p] = "raised"]
          /\ UNCHANGED main_config_content
    /\ UNCHANGED <<existing, outfile, deploy_infra_req, jinja_context,
                   size_specific_var_filename, size_config_content,
                   merged_content, outBefore, lastWriter>>

\* Outcome of read_file_content for the file f: the text, or an exception.
ReadOutcomes(f) ==
    IF f \in existing THEN {"ok"} \cup ReadErrors ELSE {"FileNotFoundError"}

\* Lines 73-86.
ReadSizeVars(p) ==
    /\ pc[p] = "read"
    /\ LET f == ResolveSizeFile(deploy_infra_req[p]) IN
       /\ size_specific_var_filename' = [size_specific_var_filename EXCEPT ![p] = f]
       /\ \E o \in ReadOutcomes(f) :
          /\ trace' = [trace EXCEPT ![p] = Append(@, Event("read", o))]
          /\ IF o = "ok"
             THEN /\ size_config_content' = [size_config_content EXCEPT ![p] = FileContent(f)]
                  /\ pc' = [pc EXCEPT ![p] = "merge"]
                  /\ UNCHANGED raised
             ELSE IF ReadHandler(o) = "continue"
             THEN /\ size_config_content' = [size_config_content EXCEPT ![p] = <<>>]
                  /\ pc' = [pc EXCEPT ![p] = "merge"]
                  /\ UNCHANGED raised
             ELSE \* re-raised by the handler, or not caught at all
                  /\ raised' = [raised EXCEPT ![p] = o]
                  /\ pc' = [pc EXCEPT ![p] = "raised"]
                  /\ UNCHANGED size_config_content
    /\ UNCHANGED <<existing, outfile, deploy_infra_req, jinja_context,
                   main_config_content, merged_content, outBefore, lastWriter>>

\* Variant: the size-specific text is kept in a module-level variable that
\* all invocations assign and read.
Merge_shared(p) ==
    /\ pc[p] = "merge"
    /\ \E q \in Procs :
          /\ pc[q] \in {"merge", "write", "returned"}
          /\ merged_content' = [merged_content EXCEPT ![p] =
                  MergeContents(main_config_content[p], size_config_content[q])]
    /\ pc' = [pc EXCEPT ![p] = "write"]
    /\ UNCHANGED <<existing, outfile, deploy_infra_req, jinja_context,
                   main_config_content, size_specific_var_filename,
                   size_config_content, raised, trace, outBefore, lastWriter>>

\* Line 90.
Merge(p) ==
    /\ pc[p] = "merge"
    /\ merged_content' = [merged_content EXCEPT ![p] =
            MergeContents(main_config_content[p], size_config_content[p])]
    /\ pc' = [pc EXCEPT ![p] = "write"]
    /\ UNCHANGED <<existing, outfile, deploy_infra_req, jinja_context,
                   main_config_content, size_specific_var_filename,
                   size_config_content, raised, trace, outBefore, lastWriter>>

\* Variant: a failed write is tried again.
Write_retry(p) ==
    /\ pc[p] = "write"
    /\ \/ /\ outfile' = [exists |-> TRUE, text |-> merged_content[p]]
          /\ lastWriter' = p
          /\ trace' = [trace EXCEPT ![p] = Append(@, Event("write", "ok"))]
          /\ pc' = [pc EXCEPT ![p] = "returned"]
          /\ UNCHANGED raised
       \/ \E e \in WriteErrors :
          /\ trace' = [trace EXCEPT ![p] = Append(@, Event("write", e))]
          /\ \E f \in AfterFailedWrite(outfile) :
             /\ outfile' = f
             /\ lastWriter' = IF f = outfile THEN lastWriter ELSE 0
          /\ UNCHANGED <<pc, raised>>
    /\ UNCHANGED <<existing, deploy_infra_req, jinja_context,
                   main_config_content, size_specific_var_filename,
                   size_config_content, merged_content, outBefore>>

\* Lines 93-101.
Write(p) ==
    /\ pc[p] = "write"
    /\ \/ /\ outfile' = [exists |-> TRUE, text |-> merged_content[p]]
          /\ lastWriter' = p
          /\ trace' = [trace EXCEPT ![p] = Append(@, Event("write", "ok"))]
          /\ pc' = [pc EXCEPT ![p] = "returned"]
          /\ UNCHANGED raised
       \/ \E e \in WriteErrors :
          /\ trace' = [trace EXCEPT ![p] = Append(@, Event("write", e))]
          /\ \E f \in AfterFailedWrite(outfile) :
             /\ outfile' = f
             /\ lastWriter' = IF f = outfile THEN lastWriter ELSE 0
          /\ IF WriteHandler(e) = "continue"
             THEN /\ pc' = [pc EXCEPT ![p] = "returned"]
                  /\ UNCHANGED raised
             ELSE \* re-raised by the handler, or not caught at all
                  /\ raised' = [raised EXCEPT ![p] = e]
                  /\ pc' = [pc EXCEPT ![p] = "raised"]
    /\ UNCHANGED <<existing, deploy_infra_req, jinja_context,
                   main_config_content, size_specific_var_filename,
                   size_config_content, merged_content, outBefore>>

\* The caller has seen the invocation return or raise; the frame and its
\* locals are gone and the pipeline may invoke generate_config again.
Leave(p) ==
    /\ pc[p] \in {"returned", "raised"}
    /\ pc' = [pc EXCEPT ![p] = "idle"]
    /\ deploy_infra_req' = [deploy_infra_req EXCEPT ![p] = NoRequest]
    /\ jinja_context' = [jinja_context EXCEPT ![p] = NoContext]
    /\ main_config_content' = [main_config_content EXCEPT ![p] = <<>>]
    /\ size_specific_var_filename' = [size_specific_var_filename EXCEPT ![p] = ""]
    /\ size_config_content' = [size_config_content EXCEPT ![p] = <<>>]
    /\ merged_content' = [merged_content EXCEPT ![p] = <<>>]
    /\ raised' = [raised EXCEPT ![p] = ""]
    /\ trace' = [trace EXCEPT ![p] = <<>>]
    /\ outBefore' = [outBefore EXCEPT ![p] = EmptyFile]
    /\ lastWriter' = 0
    /\ UNCHANGED <<existing, outfile>>

Next ==
    \E p \in SeqProcs :
        \/ Call(p)
        \/ Leave(p)
        \/ Render(p)
        \/ ReadSizeVars(p)
        \/ Merge(p)
        \/ Write(p)

Spec == Init /\ [][Next]_vars

ConcNext ==
    \E p \in Procs :
        \/ ConcCall(p)
        \/ Render(p)
        \/ ReadSizeVars(p)
        \/ Merge(p)
        \/ Write(p)

SpecConc == Init /\ [][ConcNext]_vars

-----------------------------------------------------------------------------
(* Vocabulary of the properties *)

Invocations == Procs

\* The helper call number i of invocation p has been made.
Called(p, i) == Len(trace[p]) >= i

RenderOk(p) == Called(p, 1) /\ trace[p][1] = Event("render", "ok")
RenderFailed(p) == Called(p, 1) /\ trace[p][1].step = "render" /\ trace[p][1].result # "ok"

\* The file the size string of the request stands for, case by case.
TierFile(size) ==
    LET same(t) == /\ Len(size) = Len(t)
                   /\ \A i \in 1..Len(t) : size[i] \in {t[i], UpperLetters[
                          CHOOSE k \in DOMAIN LowerLetters : LowerLetters[k] = t[i]]}
    IN IF same(small_key) THEN "small_vars.tfvars"
       ELSE IF same(medium_key) THEN "medium_vars.tfvars"
       ELSE IF same(large_key) THEN "large_vars.tfvars"
       ELSE "small_vars.tfvars"

\* Verbatim content of the override file f, empty when it does not exist.
OverrideText(f) == IF f \in existing THEN FileContent(f) ELSE <<>>

\* An event that is a failure the invocation may not survive.
Fatal(ev) ==
    /\ ev.result # "ok"
    /\ ~(ev.step = "read" /\ ev.result = "FileNotFoundError")

-----------------------------------------------------------------------------
(* Properties *)

\* C1: whenever generate_config has returned without raising, the output file
\* holds renderedBase + delimiter + overrideText, where overrideText is the
\* verbatim content of the resolved override file or empty if it is missing;
\* the base is the head of the file, the delimiter follows it and the
\* override text is everything after the delimiter.
C1_MergedOutput ==
    \A p \in SeqProcs :
        pc[p] = "returned" =>
            LET base == render_jinja_template(jinja_context[p])
                over == OverrideText(size_specific_var_filename[p])
                text == outfile.text
                n    == Len(base)
                d    == Len(Delimiter)
            IN /\ outfile.exists
               /\ text = base \o Delimiter \o over
               /\ SubSeq(text, 1, n) = base
               /\ SubSeq(text, n + 1, n + d) = Delimiter
               /\ SubSeq(text, n + d + 1, Len(text)) = over

\* An invocation returned after reading an override file that exists.
C1_Witness ==
    \E p \in SeqProcs :
        /\ pc[p] = "returned"
        /\ size_specific_var_filename[p] \in existing
        /\ deploy_infra_req[p].components = ("registry" :> TRUE)

\* C2: the override file read is the entry of the size-tier table for the
\* request's size string compared without regard to letter case, the small
\* entry for every other string; an unrecognized size raises nothing: the
\* read is attempted, and whatever is raised is an exception of a helper.
C2_SizeSelectsFile ==
    \A p \in SeqProcs :
        /\ Called(p, 2) =>
              /\ trace[p][2].step = "read"
              /\ size_specific_var_filename[p] = TierFile(deploy_infra_req[p].type)
        /\ pc[p] = "raised" =>
              /\ trace[p] # <<>>
              /\ raised[p] = trace[p][Len(trace[p])].result
              /\ raised[p] \in RenderErrors \cup ReadErrors \cup WriteErrors

\* An invocation with an unrecognized size returned after reading the small file.
C2_Witness ==
    \E p \in SeqProcs :
        /\ pc[p] = "returned"
        /\ deploy_infra_req[p].type = <<"x","l">>
        /\ size_specific_var_filename[p] = "small_vars.tfvars"

\* C3: when rendering the base template fails, the invocation raises that
\* error, makes no further helper call, and the output file is as it was when
\* the invocation began.
C3_RenderFailure ==
    \A p \in SeqProcs :
        RenderFailed(p) =>
            /\ pc[p] = "raised"
            /\ raised[p] = trace[p][1].result
            /\ Len(trace[p]) = 1
            /\ outfile = outBefore[p]

\* Rendering failed while an output file of an earlier invocation exists.
C3_Witness ==
    \E p \in SeqProcs :
        /\ RenderFailed(p)
        /\ pc[p] = "raised"
        /\ outBefore[p].exists
        /\ outBefore[p].text # <<>>

\* C4: when the override file exists and reading it fails, the invocation
\* raises that error, does not write, and the output file is as it was when
\* the invocation began, although rendering succeeded.
C4_ReadFailure ==
    \A p \in SeqProcs :
        (/\ Called(p, 2)
         /\ size_specific_var_filename[p] \in existing
         /\ trace[p][2].result # "ok") =>
            /\ RenderOk(p)
            /\ pc[p] = "raised"
            /\ raised[p] = trace[p][2].result
            /\ Len(trace[p]) = 2
            /\ outfile = outBefore[p]

\* Reading an existing override file failed with an I/O error while an output
\* file of an earlier invocation exists.
C4_Witness ==
    \E p \in SeqProcs :
        /\ Called(p, 2)
        /\ size_specific_var_filename[p] \in existing
        /\ trace[p][2].result = "PermissionError"
        /\ outBefore[p].exists
        /\ outBefore[p].text # <<>>

\* C5: when the resolved override file does not exist, the read raises
\* nothing and the invocation goes on to merge and write; if the write
\* succeeds the invocation returns and the output file is the rendered base
\* followed by the delimiter and nothing else.
C5_MissingOverride ==
    \A p \in SeqProcs :
        (Called(p, 2) /\ size_specific_var_filename[p] \notin existing) =>
            /\ RenderOk(p)
            /\ Len(trace[p]) = 2 => pc[p] \in {"merge", "write"} /\ raised[p] = ""
            /\ (Called(p, 3) /\ trace[p][3].result = "ok") =>
                  /\ pc[p] = "returned"
                  /\ raised[p] = ""
                  /\ outfile = [exists |-> TRUE,
                                text |-> render_jinja_template(jinja_context[p]) \o Delimiter]

\* An invocation returned although its override file does not exist.
C5_Witness ==
    \E p \in SeqProcs :
        /\ pc[p] = "returned"
        /\ size_specific_var_filename[p] \notin existing
        /\ outfile.text = main_config_content[p] \o Delimiter

\* C6: only a missing override file is swallowed.  A finished invocation has
\* raised exactly when one of its helper calls failed otherwise, and then it
\* raised that failure; it has returned exactly when rendering succeeded, the
\* read succeeded or found no file, and the write succeeded.  No invocation
\* goes on after such a failure.
C6_NothingElseSwallowed ==
    \A p \in SeqProcs :
        LET t == trace[p]
            failed == \E i \in DOMAIN t : Fatal(t[i])
        IN /\ failed => pc[p] = "raised" /\ raised[p] = t[Len(t)].result
           /\ pc[p] = "raised" => failed
           /\ pc[p] = "returned" =>
                 /\ Len(t) = 3
                 /\ t[1] = Event("render", "ok")
                 /\ t[2] \in {Event("read", "ok"), Event("read", "FileNotFoundError")}
                 /\ t[3] = Event("write", "ok")
                 /\ raised[p] = ""

\* The write failed with file-not-found (the output directory is missing) and
\* the invocation raised it.
C6_Witness ==
    \E p \in SeqProcs :
        /\ pc[p] = "raised"
        /\ Len(trace[p]) = 3
        /\ trace[p][3] = Event("write", "FileNotFoundError")
        /\ raised[p] = "FileNotFoundError"

\* The components mapping has the key k and maps it to true.
Enabled(components, k) == \E j \in DOMAIN components : j = k /\ components[j] = TRUE

\* C7: the render context of an invocation is determined by its request:
\* provision_adapter_infra is true iff bap or bpp is enabled,
\* provision_gateway_infra and provision_registry_infra are the gateway and
\* registry flags, an absent key counting as false, and project_id, region
\* and suffix are the request's project id, region and app name.
C7_RenderContext ==
    \A p \in SeqProcs :
        pc[p] # "idle" =>
            LET c == deploy_infra_req[p].components
                x == jinja_context[p]
            IN /\ x.provision_adapter_infra = (Enabled(c, "bap") \/ Enabled(c, "bpp"))
               /\ x.provision_gateway_infra = Enabled(c, "gateway")
               /\ x.provision_registry_infra = Enabled(c, "registry")
               /\ x.project_id = deploy_infra_req[p].project_id
               /\ x.region = deploy_infra_req[p].region
               /\ x.suffix = deploy_infra_req[p].app_name
               /\ DOMAIN x = {"project_id", "region", "suffix", "provision_adapter_infra",
                              "provision_gateway_infra", "provision_registry_infra"}

\* The template was rendered for a request that enables bpp only, bap being
\* present and false and the other two keys absent.
C7_Witness ==
    \E p \in SeqProcs :
        /\ RenderOk(p)
        /\ deploy_infra_req[p].components = ("bap" :> FALSE) @@ ("bpp" :> TRUE)
        /\ jinja_context[p].provision_adapter_infra = TRUE
        /\ jinja_context[p].provision_gateway_infra = FALSE
        /\ main_config_content[p] = <<"proj-a", "us-central1", "onix", "adapter">>

\* C8: within an invocation the helper calls are made in the order render,
\* read, write: the read only after a successful render, the write only after
\* a successful render and a read that succeeded or found no file.
C8_StepOrder ==
    \A p \in Invocations :
        \A i \in DOMAIN trace[p] :
            LET ev == trace[p][i] IN
            /\ ev.step = "render" => i = 1
            /\ ev.step = "read" => i = 2 /\ trace[p][1] = Event("render", "ok")
            /\ ev.step = "write" =>
                  /\ i = 3
                  /\ trace[p][1] = Event("render", "ok")
                  /\ trace[p][2] \in {Event("read", "ok"), Event("read", "FileNotFoundError")}

\* An invocation made all three calls, the read finding no file.
C8_Witness ==
    \E p \in Invocations :
        /\ Len(trace[p]) = 3
        /\ trace[p][2] = Event("read", "FileNotFoundError")
        /\ trace[p][3].step = "write"

\* C9: no retries: an invocation attempts the render, the read and the write
\* at most once each, a fatal failure is the last call it makes, and it
\* writes the output file at most once.
C9_NoRetries ==
    \A p \in Invocations :
        LET t == trace[p] IN
        /\ \A s \in {"render", "read", "write"} :
              Cardinality({i \in DOMAIN t : t[i].step = s}) <= 1
        /\ \A i \in DOMAIN t : Fatal(t[i]) => i = Len(t) /\ pc[p] = "raised"

\* A write failed and the invocation ended there, having tried once.
C9_Witness ==
    \E p \in Invocations :
        /\ pc[p] = "raised"
        /\ Len(trace[p]) = 3
        /\ trace[p][3].step = "write"
        /\ Fatal(trace[p][3])

\* The complete merged text of the request r.
FullOutput(r) ==
    [exists |-> TRUE,
     text |-> render_jinja_template(BuildContext(r)) \o Delimiter
              \o OverrideText(TierFile(r.type))]

====
